---- MODULE Spec2Model ----
(***************************************************************************)
(* Build performance and flight-simulation engine of the RotorBench        *)
(* backend (CIS5120_Final_Project/backend/utils/build_analysis.py), and    *)
(* its JSON store of saved builds (utils/builds_data.py).                  *)
(*                                                                         *)
(* Python floats are modelled as fixed-point integers:                     *)
(*   weight, thrust        0.01 g          price           0.001           *)
(*   voltage               0.001 V         max_current     0.001 A (mA)    *)
(*   power (rounded)       0.01 W          current (rounded) 0.01 A        *)
(*   capacity              1 mAh           time            0.1 min         *)
(*   percentage            0.1 %           throttle        0.0001          *)
(*   size (inches)         0.1 in          unrounded current 0.000001 A    *)
(* round(x, n) is modelled by RoundTo (round half to even, as Python's     *)
(* round); catalog weights and prices are chosen so that no decimal tie    *)
(* occurs in the weight and cost sums.                                     *)
(***************************************************************************)
EXTENDS Integers, Sequences, FiniteSets, TLC

\* build and result: the engine's input and the outcome of the last call;
\* items: the list of saved builds kept in builds.json
VARIABLES build, result, items

vars == <<build, result, items>>

(***************************************************************************)
(* Bounds of the catalog the builds are drawn from.                        *)
(***************************************************************************)
MaxMotorCount == 4

MaxThrustSamples == 2

MaxProfilePoints == 2

\* the largest number of builds saved in the store
MaxStoredBuilds == 3

(***************************************************************************)
(* Arithmetic helpers.                                                     *)
(***************************************************************************)
Abs(x) == IF x < 0 THEN -x ELSE x

Min(a, b) == IF a <= b THEN a ELSE b

\* round(x / d) to the nearest integer, ties to the even one (x >= 0, d > 0)
RoundDiv(x, d) ==
    LET q == x \div d
        r == x % d
    IN  IF 2 * r < d THEN q
        ELSE IF 2 * r > d THEN q + 1
        ELSE IF q % 2 = 0 THEN q ELSE q + 1

\* round(x, n): x rounded to a multiple of step, in the unit of x
RoundTo(x, step) == RoundDiv(x, step) * step

(***************************************************************************)
(* Data model (models/components.py).  An absent Optional slot is None.    *)
(***************************************************************************)
None == [kind |-> "None"]

Present(c) == c # None

VoltageRange(lo, hi) == [min |-> lo, max |-> hi]

ThrustDataPoint(k, t) == [kv |-> k, thrust |-> t]

DischargePoint(p, v) == [percentage |-> p, voltage |-> v]

Frame(w, n, mp, p) ==
    [kind |-> "Frame", weight |-> w, motor_count |-> n, max_prop_size |-> mp, price |-> p]

Motor(k, w, mc, v, p) ==
    [kind |-> "Motor", kv |-> k, weight |-> w, max_current |-> mc, voltage |-> v, price |-> p]

Propeller(s, w, p, td) ==
    [kind |-> "Propeller", size |-> s, weight |-> w, price |-> p, thrust_data |-> td]

ESC(cr, w, v, p) ==
    [kind |-> "ESC", current_rating |-> cr, weight |-> w, voltage |-> v, price |-> p]

FlightController(w, p) ==
    [kind |-> "FlightController", weight |-> w, price |-> p]

Battery(c, v, w, dp, p) ==
    [kind |-> "Battery", capacity |-> c, voltage |-> v, weight |-> w,
     discharge_profile |-> dp, price |-> p]

Receiver(w, cd, p) ==
    [kind |-> "Receiver", weight |-> w, current_draw |-> cd, price |-> p]

DroneComponents(f, m, p, e, fc, b, r) ==
    [frame |-> f, motors |-> m, propellers |-> p, esc |-> e,
     flight_controller |-> fc, battery |-> b, receiver |-> r]

\* all sequences over S of length at most n
RECURSIVE SeqsUpTo(_, _)
SeqsUpTo(S, n) ==
    IF n = 0 THEN {<<>>}
    ELSE LET shorter == SeqsUpTo(S, n - 1)
         IN  shorter \cup {Append(s, x) : s \in shorter, x \in S}

(***************************************************************************)
(* The catalog: the component records a build may reference.  Every field  *)
(* is a non-negative value of the data model, zero included.               *)
(***************************************************************************)
MotorCounts == {0} \cup (3..MaxMotorCount)

Frames ==
    {Frame(0, 0, 50, 0)} \cup
    {Frame(9504, n, 50 + (n % 2), 45996) : n \in MotorCounts \ {0}}

Motors ==
    { Motor(2400, 3150, 40000, VoltageRange(14800, 16800), 24990),
      Motor(1000, 2876, 1000, VoltageRange(19000, 25200), 19996),
      Motor(0, 0, 0, VoltageRange(0, 0), 0) }

CalibrationSamples ==
    { ThrustDataPoint(0, 50000), ThrustDataPoint(2300, 120000),
      ThrustDataPoint(2600, 140000) }

\* thrust calibration tables, in the catalog's given order
ThrustTables == SeqsUpTo(CalibrationSamples, MaxThrustSamples)

Propellers ==
    {Propeller(50 + (Len(td) % 2), 402 * Len(td), 3498 * Len(td), td) : td \in ThrustTables}

ESCs ==
    { ESC(45000, 1502, VoltageRange(7400, 16800), 54990),
      ESC(1000, 0, VoltageRange(0, 14800), 0) }

FlightControllers ==
    { FlightController(802, 39998) }

FullDischargeProfile ==
    << DischargePoint(1000, 16800), DischargePoint(500, 15200),
       DischargePoint(200, 14000), DischargePoint(0, 13200) >>

\* discharge profiles: the leading points of the full curve, descending percentage
DischargeProfiles ==
    {SubSeq(FullDischargeProfile, 1, n) : n \in 0..Min(MaxProfilePoints, Len(FullDischargeProfile))}

Batteries ==
    {Battery(50, v, 18000, SubSeq(FullDischargeProfile, 1, 2), 32990) :
        v \in {14800, 16800, 22200}} \cup
    {Battery(40, 14800, 15600, dp, 28996) : dp \in DischargeProfiles} \cup
    {Battery(0, 14800, 0, SubSeq(FullDischargeProfile, 1, 2), 0)}

Receivers ==
    { Receiver(206, 100, 14998) }

Optional(S) == S \cup {None}

Builds ==
    {DroneComponents(f, m, p, e, fc, b, r) :
        f \in Optional(Frames), m \in Optional(Motors), p \in Optional(Propellers),
        e \in Optional(ESCs), fc \in Optional(FlightControllers),
        b \in Optional(Batteries), r \in Optional(Receivers)}

(***************************************************************************)
(* The flight bench: builds around batteries of realistic capacity, whose   *)
(* discharge series have many points.                                       *)
(***************************************************************************)
BenchFrames == {Frame(9504, 3, 51, 45996)}

BenchMotors ==
    { Motor(2400, 3150, 40000, VoltageRange(14800, 16800), 24990),
      Motor(2300, 2876, 15235, VoltageRange(14800, 16800), 19996) }

BenchPropellers ==
    {Propeller(50, 402, 3498, <<ThrustDataPoint(2300, 120000), ThrustDataPoint(2600, 140000)>>)}

BenchCapacities == {50, 100, 1300, 1500, 3000}

\* a profile listed by ascending percentage
AscendingDischargeProfile ==
    << DischargePoint(0, 13200), DischargePoint(500, 15200), DischargePoint(1000, 16800) >>

\* a descending profile whose voltage recovers between 50 % and 20 %
RecoveringDischargeProfile ==
    << DischargePoint(1000, 16800), DischargePoint(500, 14000),
       DischargePoint(200, 15200), DischargePoint(0, 13200) >>

\* a descending profile with a plateau and two points at the same percentage
PlateauDischargeProfile ==
    << DischargePoint(1000, 16800), DischargePoint(600, 15200),
       DischargePoint(400, 15200), DischargePoint(400, 14000), DischargePoint(0, 13200) >>

BenchBatteries ==
    {Battery(c, 14800, 18000, FullDischargeProfile, 32990) : c \in BenchCapacities} \cup
    {Battery(1500, 14800, 18000, dp, 32990) :
        dp \in {AscendingDischargeProfile, RecoveringDischargeProfile,
                PlateauDischargeProfile, SubSeq(FullDischargeProfile, 1, 2)}}

BenchReceivers == {Receiver(206, 100, 14998), Receiver(206, 17500, 14998)}

\* long-endurance builds: 1 A motors and a 4 mA receiver
EnduranceBuilds ==
    {DroneComponents(None, Motor(2300, 2876, 1000, VoltageRange(14800, 16800), 19996), p,
                     None, fc, Battery(c, 14800, 18000, FullDischargeProfile, 32990),
                     Receiver(206, 4, 14998)) :
        p \in BenchPropellers, fc \in Optional(FlightControllers), c \in {1100, 2150}}

\* a 2 kg frame that its single motor cannot lift, and a frame with no motor mount
HoverEdgeFrames == {Frame(200000, 1, 51, 45996), Frame(9504, 0, 51, 45996)}

HoverEdgeBuilds ==
    {DroneComponents(f, m, p, None, None, Battery(c, 14800, 18000, FullDischargeProfile, 32990),
                     None) :
        f \in HoverEdgeFrames, m \in {m \in BenchMotors : m.kv = 2400},
        p \in BenchPropellers, c \in {1500, 3000}}

BenchBuilds ==
    {DroneComponents(f, m, p, None, fc, b, r) :
        f \in Optional(BenchFrames), m \in BenchMotors, p \in Optional(BenchPropellers),
        fc \in Optional(FlightControllers), b \in BenchBatteries,
        r \in Optional(BenchReceivers)}
    \cup EnduranceBuilds \cup HoverEdgeBuilds

(***************************************************************************)
(* The helper bench: motors, calibration tables, batteries and query       *)
(* percentages on which the engine's helpers are called directly.          *)
(***************************************************************************)
HelperMotors ==
    {Motor(kv, 3150, 40000, VoltageRange(14800, 16800), 24990) :
        kv \in {0, 1000, 2300, 2400, 2500, 2700}}

\* two samples share kv 2400, and two share kv 2300
HelperSamples ==
    { ThrustDataPoint(0, 50000), ThrustDataPoint(2300, 120000), ThrustDataPoint(2300, 110000),
      ThrustDataPoint(2400, 130000), ThrustDataPoint(2400, 125000),
      ThrustDataPoint(2600, 140000) }

HelperPropellers ==
    {Propeller(50, 402, 3498, td) : td \in SeqsUpTo(HelperSamples, MaxThrustSamples)}

\* a descending profile whose first two points share 100 %
TwinTopDischargeProfile ==
    << DischargePoint(1000, 16800), DischargePoint(1000, 16000), DischargePoint(0, 13200) >>

HelperDischargeProfiles ==
    { FullDischargeProfile, AscendingDischargeProfile, RecoveringDischargeProfile,
      PlateauDischargeProfile, TwinTopDischargeProfile, <<>>,
      SubSeq(FullDischargeProfile, 1, 2), SubSeq(FullDischargeProfile, 2, 3) }

HelperBatteries ==
    {Battery(1500, 14800, 18000, dp, 32990) : dp \in HelperDischargeProfiles} \cup
    {Battery(0, 14800, 18000, FullDischargeProfile, 32990)}

\* percentages asked of interpolate_voltage, in 0.1 %
QueryPercentages == {0, 100, 200, 350, 400, 500, 501, 750, 1000}

HelperBuilds ==
    {DroneComponents(None, m, p, None, None, b, None) :
        m \in Optional(HelperMotors), p \in Optional(HelperPropellers),
        b \in Optional(HelperBatteries)}

(***************************************************************************)
(* validate_build: compatibility rules.  A message is its text template    *)
(* together with the values the f-string substitutes into it.              *)
(***************************************************************************)
Msg(text, args) == [text |-> text, args |-> args]

\* z if the condition holds, nothing otherwise (one guarded list.append)
AppendIf(cond, z) == IF cond THEN <<z>> ELSE <<>>

DefaultMotorCount == 4

\* build.components.frame.motor_count if build.components.frame else 4
MotorCountOf(b) == IF Present(b.frame) THEN b.frame.motor_count ELSE DefaultMotorCount

\* variant: the propeller requirement is not checked
RequiredErrorsWithoutPropeller(b) ==
    AppendIf(~Present(b.frame), Msg("Frame is required", <<>>))
    \o AppendIf(~Present(b.motors), Msg("Motors are required", <<>>))
    \o AppendIf(~Present(b.battery), Msg("Battery is required", <<>>))

RequiredErrors(b) ==
    AppendIf(~Present(b.frame), Msg("Frame is required", <<>>))
    \o AppendIf(~Present(b.motors), Msg("Motors are required", <<>>))
    \o AppendIf(~Present(b.propellers), Msg("Propellers are required", <<>>))
    \o AppendIf(~Present(b.battery), Msg("Battery is required", <<>>))

MissingWarnings(b) ==
    AppendIf(~Present(b.esc),
             Msg("ESC not selected - some calculations may be limited", <<>>))
    \o AppendIf(~Present(b.flight_controller),
             Msg("Flight controller not selected - weight calculation excludes FC", <<>>))

\* variant: the bounds of the motor voltage range are rejected
MotorVoltageErrorsExclusive(b) ==
    IF Present(b.motors) /\ Present(b.battery)
    THEN LET motor_min == b.motors.voltage.min
             motor_max == b.motors.voltage.max
             battery_voltage == b.battery.voltage
         IN  AppendIf(~(motor_min < battery_voltage /\ battery_voltage < motor_max),
                      Msg("Battery voltage ({battery_voltage}V) is outside motor voltage range ({motor_min}V - {motor_max}V)",
                          <<battery_voltage, motor_min, motor_max>>))
    ELSE <<>>

MotorVoltageErrors(b) ==
    IF Present(b.motors) /\ Present(b.battery)
    THEN LET motor_min == b.motors.voltage.min
             motor_max == b.motors.voltage.max
             battery_voltage == b.battery.voltage
         IN  AppendIf(~(motor_min <= battery_voltage /\ battery_voltage <= motor_max),
                      Msg("Battery voltage ({battery_voltage}V) is outside motor voltage range ({motor_min}V - {motor_max}V)",
                          <<battery_voltage, motor_min, motor_max>>))
    ELSE <<>>

EscVoltageErrors(b) ==
    IF Present(b.esc) /\ Present(b.battery)
    THEN LET esc_max == b.esc.voltage.max
             battery_voltage == b.battery.voltage
         IN  AppendIf(battery_voltage > esc_max,
                      Msg("Battery voltage ({battery_voltage}V) exceeds ESC maximum ({esc_max}V)",
                          <<battery_voltage, esc_max>>))
    ELSE <<>>

EscCurrentWarnings(b) ==
    IF Present(b.motors) /\ Present(b.esc)
    THEN LET motor_max_current == b.motors.max_current
             esc_rating_per_channel == b.esc.current_rating
         IN  AppendIf(motor_max_current > esc_rating_per_channel,
                      Msg("Motor current ({motor_max_current}A) may exceed ESC rating ({esc_rating_per_channel}A per channel)",
                          <<motor_max_current, esc_rating_per_channel>>))
    ELSE <<>>

\* variant: a propeller as large as the frame's maximum is rejected
PropSizeErrorsInclusive(b) ==
    IF Present(b.propellers) /\ Present(b.frame)
    THEN LET prop_size == b.propellers.size
             max_prop == b.frame.max_prop_size
         IN  AppendIf(prop_size >= max_prop,
                      Msg("Propeller size ({prop_size}\") exceeds frame maximum ({max_prop}\")",
                          <<prop_size, max_prop>>))
    ELSE <<>>

PropSizeErrors(b) ==
    IF Present(b.propellers) /\ Present(b.frame)
    THEN LET prop_size == b.propellers.size
             max_prop == b.frame.max_prop_size
         IN  AppendIf(prop_size > max_prop,
                      Msg("Propeller size ({prop_size}\") exceeds frame maximum ({max_prop}\")",
                          <<prop_size, max_prop>>))
    ELSE <<>>

\* variant: a warning invalidates the build
validate_build_WarningsInvalidate(b) ==
    LET errors == RequiredErrors(b) \o MotorVoltageErrors(b) \o EscVoltageErrors(b)
                  \o PropSizeErrors(b)
        warnings == MissingWarnings(b) \o EscCurrentWarnings(b)
    IN  [is_valid |-> Len(errors) = 0 /\ Len(warnings) = 0,
         errors |-> errors, warnings |-> warnings]

\* variant: the ESC current finding is appended to errors
validate_build_CurrentIsError(b) ==
    LET errors == RequiredErrors(b) \o MotorVoltageErrors(b) \o EscVoltageErrors(b)
                  \o EscCurrentWarnings(b) \o PropSizeErrors(b)
        warnings == MissingWarnings(b)
    IN  [is_valid |-> Len(errors) = 0, errors |-> errors, warnings |-> warnings]

validate_build(b) ==
    LET errors == RequiredErrors(b) \o MotorVoltageErrors(b) \o EscVoltageErrors(b)
                  \o PropSizeErrors(b)
        warnings == MissingWarnings(b) \o EscCurrentWarnings(b)
    IN  [is_valid |-> Len(errors) = 0, errors |-> errors, warnings |-> warnings]

(***************************************************************************)
(* calculate_total_cost and calculate_total_weight.                        *)
(***************************************************************************)
PropellerSetSize == 4

\* the price of a slot times its multiplier, 0 for an absent slot
Priced(c, multiplier) == IF Present(c) THEN c.price * multiplier ELSE 0

\* variant: the propellers are priced per motor, not per set of 4
calculate_total_cost_PropellerPerMotor(b) ==
    LET total == Priced(b.frame, 1)
                 + Priced(b.motors, MotorCountOf(b))
                 + Priced(b.propellers, MotorCountOf(b))
                 + Priced(b.esc, 1)
                 + Priced(b.flight_controller, 1)
                 + Priced(b.battery, 1)
                 + Priced(b.receiver, 1)
    IN  RoundTo(total, 10)

calculate_total_cost(b) ==
    LET total == Priced(b.frame, 1)
                 + Priced(b.motors, MotorCountOf(b))
                 + Priced(b.propellers, PropellerSetSize)
                 + Priced(b.esc, 1)
                 + Priced(b.flight_controller, 1)
                 + Priced(b.battery, 1)
                 + Priced(b.receiver, 1)
    IN  RoundTo(total, 10)

WiringAllowance == 5000

\* the weight of a slot times its multiplier, 0 for an absent slot
Weighed(c, multiplier) == IF Present(c) THEN c.weight * multiplier ELSE 0

\* variant: the propellers are weighed as a set of 4, not per motor
calculate_total_weight_PropellerSet(b) ==
    LET total == Weighed(b.frame, 1)
                 + Weighed(b.motors, MotorCountOf(b))
                 + Weighed(b.propellers, PropellerSetSize)
                 + Weighed(b.esc, 1)
                 + Weighed(b.flight_controller, 1)
                 + Weighed(b.battery, 1)
                 + Weighed(b.receiver, 1)
                 + WiringAllowance
    IN  RoundTo(total, 10)

\* variant: the total is rounded to whole grams, round(total)
calculate_total_weight_WholeGrams(b) ==
    LET total == Weighed(b.frame, 1)
                 + Weighed(b.motors, MotorCountOf(b))
                 + Weighed(b.propellers, MotorCountOf(b))
                 + Weighed(b.esc, 1)
                 + Weighed(b.flight_controller, 1)
                 + Weighed(b.battery, 1)
                 + Weighed(b.receiver, 1)
                 + WiringAllowance
    IN  RoundTo(total, 100)

calculate_total_weight(b) ==
    LET total == Weighed(b.frame, 1)
                 + Weighed(b.motors, MotorCountOf(b))
                 + Weighed(b.propellers, MotorCountOf(b))
                 + Weighed(b.esc, 1)
                 + Weighed(b.flight_controller, 1)
                 + Weighed(b.battery, 1)
                 + Weighed(b.receiver, 1)
                 + WiringAllowance
    IN  RoundTo(total, 10)

(***************************************************************************)
(* Outcome of a call: a returned value, or the exception it raises.        *)
(***************************************************************************)
Returned(v) == [raised |-> "none", value |-> v]

Raised(e) == [raised |-> e]

\* the exact quotient num / den of a float expression that is not rounded yet
Rat(n, d) == [num |-> n, den |-> d]

\* a * b / d rounded to the nearest integer (ties to even), without forming a * b
\* (a, b >= 0, d > 0, a * d below 2^31)
MulDivR(a, b, d) ==
    LET part == a * (b % d)
        q == a * (b \div d) + (part \div d)
        r == part % d
    IN  IF 2 * r < d THEN q
        ELSE IF 2 * r > d THEN q + 1
        ELSE IF q % 2 = 0 THEN q ELSE q + 1

\* the largest s with s * s <= x, searched in lo..hi
RECURSIVE SqrtBetween(_, _, _)
SqrtBetween(x, lo, hi) ==
    IF lo >= hi THEN lo
    ELSE LET mid == (lo + hi + 1) \div 2
         IN  IF mid * mid <= x THEN SqrtBetween(x, mid, hi)
             ELSE SqrtBetween(x, lo, mid - 1)

\* floor(sqrt(x)) for 0 <= x < 2^31
ISqrt(x) == SqrtBetween(x, 0, 46340)

\* sqrt(x) rounded to the nearest integer
RoundSqrt(x) == LET s == ISqrt(x) IN IF x - s * s > s THEN s + 1 ELSE s

(***************************************************************************)
(* Thrust model: calculate_thrust_for_motor_prop_combo.                    *)
(***************************************************************************)
\* s with x put behind every element whose kv is not larger (stable)
RECURSIVE InsertByKv(_, _)
InsertByKv(s, x) ==
    IF s = <<>> THEN <<x>>
    ELSE IF s[Len(s)].kv <= x.kv THEN Append(s, x)
    ELSE Append(InsertByKv(SubSeq(s, 1, Len(s) - 1), x), s[Len(s)])

\* variant: the samples are taken in the order of thrust_data
SortedByKv_AsGiven(td) == td

\* sorted(thrust_data, key=lambda x: x.kv)
RECURSIVE SortedByKv(_)
SortedByKv(td) ==
    IF td = <<>> THEN <<>>
    ELSE InsertByKv(SortedByKv(SubSeq(td, 1, Len(td) - 1)), td[Len(td)])

\* variant: the largest element
SetMax(S) == CHOOSE x \in S : \A y \in S : y <= x

SetMin(S) == CHOOSE x \in S : \A y \in S : x <= y

calculate_thrust_for_motor_prop_combo(motor, propeller) ==
    IF ~Present(motor) \/ ~Present(propeller) THEN Returned(Rat(0, 1))
    ELSE
      LET thrust_data == propeller.thrust_data
          motor_kv == motor.kv
          exact == {i \in 1..Len(thrust_data) : thrust_data[i].kv = motor_kv}
          sorted_data == SortedByKv(thrust_data)
          first == sorted_data[1]
          last == sorted_data[Len(sorted_data)]
          brackets == {i \in 1..(Len(sorted_data) - 1) :
                          sorted_data[i].kv <= motor_kv /\ motor_kv <= sorted_data[i + 1].kv}
      IN  IF exact # {} THEN Returned(Rat(thrust_data[SetMin(exact)].thrust, 1))
          ELSE IF Len(sorted_data) = 0 THEN Raised("IndexError")
          ELSE IF motor_kv < first.kv THEN
                 IF first.kv = 0 THEN Raised("ZeroDivisionError")
                 ELSE Returned(Rat(first.thrust * motor_kv, first.kv))
          ELSE IF motor_kv > last.kv THEN
                 IF last.kv = 0 THEN Raised("ZeroDivisionError")
                 ELSE Returned(Rat(last.thrust * motor_kv, last.kv))
          ELSE IF brackets # {} THEN
                 LET i == SetMin(brackets)
                     kv1 == sorted_data[i].kv
                     thrust1 == sorted_data[i].thrust
                     kv2 == sorted_data[i + 1].kv
                     thrust2 == sorted_data[i + 1].thrust
                 IN  IF kv2 - kv1 = 0 THEN Raised("ZeroDivisionError")
                     ELSE Returned(Rat(thrust1 * (kv2 - kv1)
                                       + (motor_kv - kv1) * (thrust2 - thrust1), kv2 - kv1))
          ELSE Returned(Rat(0, 1))

\* variant: the thrust of one motor, not multiplied by motor_count
calculate_max_thrust_OneMotor(b) ==
    IF ~Present(b.motors) \/ ~Present(b.propellers) THEN Returned(0)
    ELSE LET thrust_per_motor == calculate_thrust_for_motor_prop_combo(b.motors, b.propellers)
         IN  IF thrust_per_motor.raised # "none" THEN thrust_per_motor
             ELSE Returned(10 * RoundDiv(thrust_per_motor.value.num,
                                         thrust_per_motor.value.den * 10))

calculate_max_thrust(b) ==
    IF ~Present(b.motors) \/ ~Present(b.propellers) THEN Returned(0)
    ELSE LET motor_count == MotorCountOf(b)
             thrust_per_motor == calculate_thrust_for_motor_prop_combo(b.motors, b.propellers)
         IN  IF thrust_per_motor.raised # "none" THEN thrust_per_motor
             ELSE Returned(10 * RoundDiv(thrust_per_motor.value.num * motor_count,
                                         thrust_per_motor.value.den * 10))

(***************************************************************************)
(* Power model.  Throttle is in 0.0001, throttle ** 1.8 in 0.000001.       *)
(***************************************************************************)
\* (k / 100) ** 1.8 for k = 0..100, in 0.0000001
Pow18Table ==
    <<
       0, 2512, 8747, 18148, 30458, 45514, 63193, 83402,
       106063, 131110, 158489, 188151, 220052, 254155, 290423, 328825,
       369331, 411915, 456552, 503218, 551892, 602552, 655180, 709758,
       766267, 824692, 885018, 947229, 1011310, 1077250, 1145034, 1214650,
       1286086, 1359331, 1434373, 1511202, 1589807, 1670179, 1752308, 1836184,
       1921799, 2009143, 2098209, 2188987, 2281470, 2375650, 2471520, 2569071,
       2668297, 2769191, 2871746, 2975955, 3081811, 3189309, 3298441, 3409203,
       3521587, 3635589, 3751201, 3868420, 3987239, 4107653, 4229656, 4353244,
       4478411, 4605153, 4733464, 4863340, 4994776, 5127768, 5262311, 5398400,
       5536031, 5675200, 5815902, 5958134, 6101891, 6247170, 6393965, 6542275,
       6692093, 6843417, 6996244, 7150568, 7306388, 7463698, 7622496, 7782778,
       7944541, 8107781, 8272495, 8438680, 8606332, 8775448, 8946026, 9118061,
       9291551, 9466493, 9642884, 9820720, 10000000 >>

\* throttle ** 1.8 in 0.0000001: the table's value at the multiples of 0.01,
\* interpolated linearly between them
Pow18(throttle) ==
    LET k == throttle \div 100
        frac == throttle % 100
    IN  IF frac = 0 THEN Pow18Table[k + 1]
        ELSE Pow18Table[k + 1] + RoundDiv((Pow18Table[k + 2] - Pow18Table[k + 1]) * frac, 100)

\* motor.max_current * (throttle ** 1.8), in 0.000001 A
calculate_current_at_throttle(motor, throttle) ==
    IF ~Present(motor) THEN 0
    ELSE MulDivR(motor.max_current, Pow18(throttle), 10000)

FcCurrent == 500000

\* receiver.current_draw / 1000.0, in 0.000001 A
ReceiverCurrent(b) == IF Present(b.receiver) THEN b.receiver.current_draw * 1000 ELSE 0

\* voltage * total_current rounded to 2 decimals, in 0.01 W: the exact product
\* voltage * total_current / 10^7, formed in two halves of total_current
PowerOf(voltage, total_current) ==
    LET high == voltage * (total_current \div 10000)
        low == (high % 1000) * 10000 + voltage * (total_current % 10000)
        q == (high \div 1000) + (low \div 10000000)
        r == low % 10000000
    IN  IF 2 * r < 10000000 THEN q
        ELSE IF 2 * r > 10000000 THEN q + 1
        ELSE IF q % 2 = 0 THEN q ELSE q + 1

calculate_power_draw(b, throttle_percentage) ==
    IF ~Present(b.motors) \/ ~Present(b.battery) THEN 0
    ELSE LET motor_count == MotorCountOf(b)
             current_per_motor == calculate_current_at_throttle(b.motors, throttle_percentage)
             total_motor_current == current_per_motor * motor_count
             system_current == (IF Present(b.flight_controller) THEN FcCurrent ELSE 0)
                               + ReceiverCurrent(b)
             total_current == total_motor_current + system_current
         IN  PowerOf(b.battery.voltage, total_current)

(***************************************************************************)
(* Performance evaluator.                                                  *)
(***************************************************************************)
get_weight_rating(weight) ==
    IF weight < 50000 THEN "light"
    ELSE IF weight < 70000 THEN "medium"
    ELSE "heavy"

\* variant: the ratio is classified after it is rounded to 2 decimals
get_thrust_rating_OfRoundedRatio(max_thrust, total_weight) ==
    LET ratio == RoundDiv(max_thrust * 100, total_weight)
    IN  IF ratio < 300 THEN "poor"
        ELSE IF ratio < 500 THEN "adequate"
        ELSE IF ratio < 800 THEN "good"
        ELSE "excellent"

\* the ratio is max_thrust / total_weight, not rounded
get_thrust_rating(max_thrust, total_weight) ==
    IF max_thrust < 3 * total_weight THEN "poor"
    ELSE IF max_thrust < 5 * total_weight THEN "adequate"
    ELSE IF max_thrust < 8 * total_weight THEN "good"
    ELSE "excellent"

CruiseThrottle == 5000

calculate_performance_metrics(b) ==
    LET total_weight == calculate_total_weight(b)
        max_thrust == calculate_max_thrust(b)
    IN  IF max_thrust.raised # "none" THEN max_thrust
        ELSE Returned(
               [total_weight |-> total_weight,
                max_thrust |-> max_thrust.value,
                thrust_to_weight_ratio |->
                    IF total_weight > 0 THEN RoundDiv(max_thrust.value * 100, total_weight)
                    ELSE 0,
                power_draw |-> calculate_power_draw(b, CruiseThrottle),
                rating |-> [weight |-> get_weight_rating(total_weight),
                            thrust_to_weight |->
                                IF total_weight > 0
                                THEN get_thrust_rating(max_thrust.value, total_weight)
                                ELSE "poor"]])

(***************************************************************************)
(* Flight profile simulator.  Times are in 0.1 min, rounded currents in    *)
(* 0.01 A, range in 0.01 km, speeds in 0.1 km/h, efficiency in 0.1 mAh/km. *)
(***************************************************************************)
\* variant: the whole capacity is used, without the 0.8 factor
calculate_flight_time_FullCapacity(b, avg_throttle) ==
    IF ~Present(b.battery) \/ ~Present(b.motors) THEN <<0, 0>>
    ELSE LET battery_capacity == b.battery.capacity
             motor_count == MotorCountOf(b)
             current_per_motor == calculate_current_at_throttle(b.motors, avg_throttle)
             total_motor_current == current_per_motor * motor_count
             system_current == FcCurrent + ReceiverCurrent(b)
             avg_current == total_motor_current + system_current
         IN  << RoundDiv(600000 * battery_capacity, avg_current),
                RoundDiv(avg_current, 10000) >>

\* variant: the flight time is rounded to whole minutes, round(flight_time_minutes)
calculate_flight_time_WholeMinutes(b, avg_throttle) ==
    IF ~Present(b.battery) \/ ~Present(b.motors) THEN <<0, 0>>
    ELSE LET battery_capacity == b.battery.capacity
             motor_count == MotorCountOf(b)
             current_per_motor == calculate_current_at_throttle(b.motors, avg_throttle)
             total_motor_current == current_per_motor * motor_count
             system_current == FcCurrent + ReceiverCurrent(b)
             avg_current == total_motor_current + system_current
         IN  << 10 * RoundDiv(48000 * battery_capacity, avg_current),
                RoundDiv(avg_current, 10000) >>

\* (flight_time_minutes, avg_current_amps), both rounded as the code returns them
calculate_flight_time(b, avg_throttle) ==
    IF ~Present(b.battery) \/ ~Present(b.motors) THEN <<0, 0>>
    ELSE LET battery_capacity == b.battery.capacity
             motor_count == MotorCountOf(b)
             current_per_motor == calculate_current_at_throttle(b.motors, avg_throttle)
             total_motor_current == current_per_motor * motor_count
             system_current == FcCurrent + ReceiverCurrent(b)
             avg_current == total_motor_current + system_current
         IN  << RoundDiv(480000 * battery_capacity, avg_current),
                RoundDiv(avg_current, 10000) >>

AvgSpeedKmh == 45

\* flight_time_minutes / 60.0 * avg_speed_kmh, rounded to 2 decimals
calculate_range(flight_time_minutes, avg_speed_kmh) ==
    RoundDiv(flight_time_minutes * avg_speed_kmh, 6)

\* variant: the ratio is inverted, min(sqrt(max_thrust / total_weight), 1.0)
HoverThrottle_Inverted(total_weight, max_thrust) ==
    IF max_thrust >= total_weight THEN 10000
    ELSE Min(RoundSqrt(MulDivR(10000, (max_thrust \div 10) * 10000, total_weight \div 10)),
             10000)

\* min(sqrt(total_weight / max_thrust), 1.0), in 0.0001
HoverThrottle(total_weight, max_thrust) ==
    IF total_weight >= max_thrust THEN 10000
    ELSE Min(RoundSqrt(MulDivR(10000, (total_weight \div 10) * 10000, max_thrust \div 10)),
             10000)

calculate_hover_time(b) ==
    IF ~Present(b.battery) \/ ~Present(b.motors) THEN Returned(0)
    ELSE LET total_weight == calculate_total_weight(b)
             max_thrust == calculate_max_thrust(b)
         IN  IF max_thrust.raised # "none" THEN max_thrust
             ELSE IF max_thrust.value = 0 THEN Returned(0)
             ELSE Returned(calculate_flight_time(
                              b, HoverThrottle(total_weight, max_thrust.value))[1])

\* 60 * sqrt((max_thrust / total_weight) / 5.0), rounded to 1 decimal
calculate_max_speed(total_weight, max_thrust) ==
    IF total_weight = 0 THEN 0
    ELSE RoundSqrt(MulDivR(72000, max_thrust \div 10, total_weight \div 10))

\* variant: the interpolation runs from p1 towards p2, p1.voltage + t * (p2.voltage - p1.voltage)
interpolate_voltage_Reversed(discharge_profile, pnum, pden) ==
    LET brackets == {i \in 1..(Len(discharge_profile) - 1) :
                        discharge_profile[i + 1].percentage * pden <= pnum
                        /\ pnum <= discharge_profile[i].percentage * pden}
        \* (percentage - p2.percentage) * height / span, for height >= 0
        Part(p2, height, span) ==
            LET above == pnum - p2.percentage * pden
            IN  RoundDiv((above \div pden) * height + MulDivR(above % pden, height, pden),
                         span)
    IN  IF brackets # {} THEN
          LET i == SetMin(brackets)
              p1 == discharge_profile[i]
              p2 == discharge_profile[i + 1]
              span == p1.percentage - p2.percentage
              rise == (p1.voltage - p2.voltage) * 100
          IN  IF span = 0 THEN Raised("ZeroDivisionError")
              ELSE IF rise >= 0 THEN Returned(p1.voltage * 100 - Part(p2, rise, span))
              ELSE Returned(p1.voltage * 100 + Part(p2, -rise, span))
        ELSE IF Len(discharge_profile) = 0 THEN Raised("IndexError")
        ELSE IF pnum >= discharge_profile[1].percentage * pden
             THEN Returned(discharge_profile[1].voltage * 100)
        ELSE Returned(discharge_profile[Len(discharge_profile)].voltage * 100)

\* voltage, in 0.00001 V, at the percentage pnum / pden (in 0.1 %)
interpolate_voltage(discharge_profile, pnum, pden) ==
    LET brackets == {i \in 1..(Len(discharge_profile) - 1) :
                        discharge_profile[i + 1].percentage * pden <= pnum
                        /\ pnum <= discharge_profile[i].percentage * pden}
        \* (percentage - p2.percentage) * height / span, for height >= 0
        Part(p2, height, span) ==
            LET above == pnum - p2.percentage * pden
            IN  RoundDiv((above \div pden) * height + MulDivR(above % pden, height, pden),
                         span)
    IN  IF brackets # {} THEN
          LET i == SetMin(brackets)
              p1 == discharge_profile[i]
              p2 == discharge_profile[i + 1]
              span == p1.percentage - p2.percentage
              rise == (p1.voltage - p2.voltage) * 100
          IN  IF span = 0 THEN Raised("ZeroDivisionError")
              ELSE IF rise >= 0 THEN Returned(p2.voltage * 100 + Part(p2, rise, span))
              ELSE Returned(p2.voltage * 100 - Part(p2, -rise, span))
        ELSE IF Len(discharge_profile) = 0 THEN Raised("IndexError")
        ELSE IF pnum >= discharge_profile[1].percentage * pden
             THEN Returned(discharge_profile[1].voltage * 100)
        ELSE Returned(discharge_profile[Len(discharge_profile)].voltage * 100)

TimeStep == 5

\* variant: the loop has no break, every step up to num_points is kept
generate_discharge_curve_NoBreak(b, flight_time_minutes, avg_current) ==
    IF ~Present(b.battery) THEN Returned(<<>>)
    ELSE
      LET battery == b.battery
          num_points == (flight_time_minutes \div TimeStep) + 1
          \* remaining capacity in 1/600 mAh: avg_current * 1000 * (time / 60.0)
          Remaining600(i) == battery.capacity * 600 - (avg_current * 10) * (i * TimeStep)
          \* remaining_percentage = Remaining600 * 5 / (3 * capacity), in 0.1 %
          Voltage(i) == interpolate_voltage(battery.discharge_profile,
                                            Remaining600(i) * 5, 3 * battery.capacity)
          breaks == {}
          limit == IF breaks = {} THEN num_points ELSE SetMin(breaks)
          raising == {i \in 0..(limit - 1) : Voltage(i).raised # "none"}
          Point(i) ==
              LET voltage == Voltage(i).value
              IN  [time |-> i * TimeStep,
                   voltage |-> RoundTo(voltage, 1000) \div 100,
                   remaining_capacity |-> RoundDiv(Remaining600(i), 60),
                   current_draw |->
                       IF voltage > 0
                       THEN MulDivR(100, avg_current * battery.voltage, voltage)
                       ELSE avg_current]
      IN  IF battery.capacity = 0 THEN Raised("ZeroDivisionError")
          ELSE IF raising # {} THEN Voltage(SetMin(raising))
          ELSE Returned([n \in 1..limit |-> Point(n - 1)])

\* variant: the loop runs one step further, range(num_points + 1)
generate_discharge_curve_OneStepMore(b, flight_time_minutes, avg_current) ==
    IF ~Present(b.battery) THEN Returned(<<>>)
    ELSE
      LET battery == b.battery
          num_points == (flight_time_minutes \div TimeStep) + 2
          \* remaining capacity in 1/600 mAh: avg_current * 1000 * (time / 60.0)
          Remaining600(i) == battery.capacity * 600 - (avg_current * 10) * (i * TimeStep)
          \* remaining_percentage = Remaining600 * 5 / (3 * capacity), in 0.1 %
          Voltage(i) == interpolate_voltage(battery.discharge_profile,
                                            Remaining600(i) * 5, 3 * battery.capacity)
          breaks == {i \in 0..(num_points - 1) : Remaining600(i) < 120 * battery.capacity}
          limit == IF breaks = {} THEN num_points ELSE SetMin(breaks)
          raising == {i \in 0..(limit - 1) : Voltage(i).raised # "none"}
          Point(i) ==
              LET voltage == Voltage(i).value
              IN  [time |-> i * TimeStep,
                   voltage |-> RoundTo(voltage, 1000) \div 100,
                   remaining_capacity |-> RoundDiv(Remaining600(i), 60),
                   current_draw |->
                       IF voltage > 0
                       THEN MulDivR(100, avg_current * battery.voltage, voltage)
                       ELSE avg_current]
      IN  IF battery.capacity = 0 THEN Raised("ZeroDivisionError")
          ELSE IF raising # {} THEN Voltage(SetMin(raising))
          ELSE Returned([n \in 1..limit |-> Point(n - 1)])

\* the for loop of generate_discharge_curve: the steps before the first one that
\* breaks are kept; a step that raises before it ends the call
generate_discharge_curve(b, flight_time_minutes, avg_current) ==
    IF ~Present(b.battery) THEN Returned(<<>>)
    ELSE
      LET battery == b.battery
          num_points == (flight_time_minutes \div TimeStep) + 1
          \* remaining capacity in 1/600 mAh: avg_current * 1000 * (time / 60.0)
          Remaining600(i) == battery.capacity * 600 - (avg_current * 10) * (i * TimeStep)
          \* remaining_percentage = Remaining600 * 5 / (3 * capacity), in 0.1 %
          Voltage(i) == interpolate_voltage(battery.discharge_profile,
                                            Remaining600(i) * 5, 3 * battery.capacity)
          breaks == {i \in 0..(num_points - 1) : Remaining600(i) < 120 * battery.capacity}
          limit == IF breaks = {} THEN num_points ELSE SetMin(breaks)
          raising == {i \in 0..(limit - 1) : Voltage(i).raised # "none"}
          Point(i) ==
              LET voltage == Voltage(i).value
              IN  [time |-> i * TimeStep,
                   voltage |-> RoundTo(voltage, 1000) \div 100,
                   remaining_capacity |-> RoundDiv(Remaining600(i), 60),
                   current_draw |->
                       IF voltage > 0
                       THEN MulDivR(100, avg_current * battery.voltage, voltage)
                       ELSE avg_current]
      IN  IF battery.capacity = 0 THEN Raised("ZeroDivisionError")
          ELSE IF raising # {} THEN Voltage(SetMin(raising))
          ELSE Returned([n \in 1..limit |-> Point(n - 1)])

calculate_throttle_profile(b) ==
    IF ~Present(b.motors) \/ ~Present(b.propellers) \/ ~Present(b.battery)
    THEN Returned(<<>>)
    ELSE
      LET motor_count == MotorCountOf(b)
          thrust_per_motor == calculate_thrust_for_motor_prop_combo(b.motors, b.propellers)
          voltage == b.battery.voltage
          Point(k) ==
              LET throttle == k * 1000
                  total_current ==
                      calculate_current_at_throttle(b.motors, throttle) * motor_count
                      + FcCurrent + ReceiverCurrent(b)
              IN  [throttle |-> throttle,
                   thrust |-> 10 * MulDivR(k * k, thrust_per_motor.value.num * motor_count,
                                           thrust_per_motor.value.den * 1000),
                   current |-> RoundDiv(total_current, 10000),
                   power |-> PowerOf(voltage, total_current)]
      IN  IF thrust_per_motor.raised # "none" THEN thrust_per_motor
          ELSE Returned([n \in 1..11 |-> Point(n - 1)])

\* variant: the sentinel keeps the fixed average speed
EmptyFlightSimulationWithAvgSpeed ==
    [battery_capacity |-> 0, avg_current_draw |-> 0, estimated_flight_time |-> 0,
     estimated_range |-> 0, avg_speed |-> 450, hover_time |-> 0, max_speed |-> 0,
     efficiency |-> 0, discharge_data |-> <<>>, throttle_profile |-> <<>>]

EmptyFlightSimulation ==
    [battery_capacity |-> 0, avg_current_draw |-> 0, estimated_flight_time |-> 0,
     estimated_range |-> 0, avg_speed |-> 0, hover_time |-> 0, max_speed |-> 0,
     efficiency |-> 0, discharge_data |-> <<>>, throttle_profile |-> <<>>]

calculate_flight_simulation(b) ==
    IF ~Present(b.battery) THEN Returned(EmptyFlightSimulation)
    ELSE
      LET ft == calculate_flight_time(b, CruiseThrottle)
          flight_time == ft[1]
          avg_current == ft[2]
          hover_time == calculate_hover_time(b)
          total_weight == calculate_total_weight(b)
          max_thrust == calculate_max_thrust(b)
          range_km == calculate_range(flight_time, AvgSpeedKmh)
          efficiency == IF range_km > 0
                        THEN RoundDiv(b.battery.capacity * 800, range_km) ELSE 0
          discharge_data == generate_discharge_curve(b, flight_time, avg_current)
          throttle_profile == calculate_throttle_profile(b)
      IN  IF hover_time.raised # "none" THEN hover_time
          ELSE IF max_thrust.raised # "none" THEN max_thrust
          ELSE IF discharge_data.raised # "none" THEN discharge_data
          ELSE IF throttle_profile.raised # "none" THEN throttle_profile
          ELSE Returned(
                 [battery_capacity |-> b.battery.capacity,
                  avg_current_draw |-> avg_current,
                  estimated_flight_time |-> flight_time,
                  estimated_range |-> range_km,
                  avg_speed |-> AvgSpeedKmh * 10,
                  hover_time |-> hover_time.value,
                  max_speed |-> calculate_max_speed(total_weight, max_thrust.value),
                  efficiency |-> efficiency,
                  discharge_data |-> discharge_data.value,
                  throttle_profile |-> throttle_profile.value])

(***************************************************************************)
(* Analysis orchestrator.                                                  *)
(***************************************************************************)
EmptyPerformanceMetrics ==
    [total_weight |-> 0, max_thrust |-> 0, thrust_to_weight_ratio |-> 0, power_draw |-> 0,
     rating |-> [weight |-> "medium", thrust_to_weight |-> "poor"]]

\* variant: the propeller is not part of the condition
HasMinimumComponentsWithoutPropeller(b) == Present(b.motors) /\ Present(b.battery)

\* build.components.motors and build.components.battery and build.components.propellers
HasMinimumComponents(b) == Present(b.motors) /\ Present(b.battery) /\ Present(b.propellers)

analyze_build(b) ==
    LET validation == validate_build(b)
        performance == IF HasMinimumComponents(b) THEN calculate_performance_metrics(b)
                       ELSE Returned(EmptyPerformanceMetrics)
        flight_sim == IF HasMinimumComponents(b) THEN calculate_flight_simulation(b)
                      ELSE Returned(EmptyFlightSimulation)
        total_cost == calculate_total_cost(b)
    IN  IF performance.raised # "none" THEN performance
        ELSE IF flight_sim.raised # "none" THEN flight_sim
        ELSE Returned(
               [is_valid |-> validation.is_valid,
                errors |-> validation.errors,
                warnings |-> validation.warnings,
                performance |-> performance.value,
                flight_simulation |-> flight_sim.value,
                total_cost |-> total_cost])

(***************************************************************************)
(* The state machine: a build drawn from the catalog, and the outcome of   *)
(* the last call made on it.                                               *)
(***************************************************************************)
NoResult == [op |-> "none"]

Outcome(op, outcome) ==
    IF outcome.raised = "none"
    THEN [op |-> op, raised |-> "none", value |-> outcome.value]
    ELSE [op |-> op, raised |-> outcome.raised]

Init ==
    /\ build \in Builds
    /\ result = NoResult
    /\ items = <<>>

AnalyzeBuild ==
    /\ result' = Outcome("analyze_build", analyze_build(build))
    /\ UNCHANGED <<build, items>>

ValidateBuild ==
    /\ result' = Outcome("validate_build", Returned(validate_build(build)))
    /\ UNCHANGED <<build, items>>

CalculateTotalWeight ==
    /\ result' = Outcome("calculate_total_weight", Returned(calculate_total_weight(build)))
    /\ UNCHANGED <<build, items>>

CalculateTotalCost ==
    /\ result' = Outcome("calculate_total_cost", Returned(calculate_total_cost(build)))
    /\ UNCHANGED <<build, items>>

Next ==
    \/ AnalyzeBuild
    \/ ValidateBuild
    \/ CalculateTotalWeight
    \/ CalculateTotalCost

Spec == Init /\ [][Next]_vars

\* the same calls, made on the builds of the flight bench
BenchInit ==
    /\ build \in BenchBuilds
    /\ result = NoResult
    /\ items = <<>>

BenchSpec == BenchInit /\ [][Next]_vars

\* the engine's helpers, called directly on the builds of the helper bench
HelperInit ==
    /\ build \in HelperBuilds
    /\ result = NoResult
    /\ items = <<>>

CalculateThrustForMotorPropCombo ==
    /\ result' = Outcome("calculate_thrust_for_motor_prop_combo",
                         calculate_thrust_for_motor_prop_combo(build.motors, build.propellers))
    /\ UNCHANGED <<build, items>>

InterpolateVoltage ==
    /\ Present(build.battery)
    /\ \E percentage \in QueryPercentages :
          result' = [percentage |-> percentage] @@
                    Outcome("interpolate_voltage",
                            interpolate_voltage(build.battery.discharge_profile, percentage, 1))
    /\ UNCHANGED <<build, items>>

CalculateFlightSimulation ==
    /\ result' = Outcome("calculate_flight_simulation", calculate_flight_simulation(build))
    /\ UNCHANGED <<build, items>>

HelperNext ==
    \/ CalculateThrustForMotorPropCombo
    \/ InterpolateVoltage
    \/ CalculateFlightSimulation

HelperSpec == HelperInit /\ [][HelperNext]_vars

(***************************************************************************)
(* The JSON build store (utils/builds_data.py).  A saved build is its id   *)
(* and its name; the timestamps createdAt and updatedAt and the other      *)
(* fields are carried along like the name and are left out.                *)
(***************************************************************************)
\* a key that the request body does not hold
Absent == "absent"

\* ids a client may send
ClientIds == {"b1", "b2"}

\* values of "bld_" + uuid4().hex[:10], in the order they are drawn
GeneratedIds == << "bld_00000000a1", "bld_00000000a2", "bld_00000000a3",
                   "bld_00000000a4", "bld_00000000a5" >>

BuildIds == ClientIds \cup {GeneratedIds[n] : n \in DOMAIN GeneratedIds}

\* request bodies: Build.model_dump(exclude_none=True)
BuildData == [id : ClientIds \cup {Absent}, name : {"racer", Absent}]

\* {**b, **data}: the keys of data replace those of b
Merged(b, data) ==
    [id |-> IF data.id # Absent THEN data.id ELSE b.id,
     name |-> IF data.name # Absent THEN data.name ELSE b.name]

\* positions of the saved builds whose id is bid
Positions(bid) == {i \in DOMAIN items : items[i].id = bid}

\* the engine takes no part in the store: its input is the empty build
StoreInit ==
    /\ build = DroneComponents(None, None, None, None, None, None, None)
    /\ result = NoResult
    /\ items = <<>>

\* generated ids that no saved build holds: uuid4 is taken never to repeat an id
Unused == {n \in DOMAIN GeneratedIds : Positions(GeneratedIds[n]) = {}}

\* create_build(data): the id of data, or a generated one; the record is appended
CreateBuild ==
    /\ Len(items) < MaxStoredBuilds
    /\ Unused # {}
    /\ \E data \in BuildData :
          LET generated == GeneratedIds[SetMin(Unused)]
              created == [data EXCEPT !.id = IF data.id # Absent THEN data.id ELSE generated]
          IN  /\ items' = Append(items, created)
              /\ result' = Outcome("create_build", Returned(created))
    /\ UNCHANGED build

\* update_build(bid, data): the first record with that id is replaced by the merge,
\* its id kept; None when there is none
UpdateBuild ==
    /\ \E bid \in BuildIds, data \in BuildData :
          IF Positions(bid) # {}
          THEN LET i == SetMin(Positions(bid))
                   merged == [Merged(items[i], data) EXCEPT !.id = bid]
               IN  /\ items' = [items EXCEPT ![i] = merged]
                   /\ result' = Outcome("update_build", Returned(merged))
          ELSE /\ items' = items
               /\ result' = Outcome("update_build", Returned(None))
    /\ UNCHANGED build

\* the records of s whose id is not bid, in order
RECURSIVE WithoutId(_, _)
WithoutId(s, bid) ==
    IF s = <<>> THEN <<>>
    ELSE IF s[1].id = bid THEN WithoutId(Tail(s), bid)
    ELSE <<s[1]>> \o WithoutId(Tail(s), bid)

\* delete_build(bid): every record with that id is dropped; False when there is none
DeleteBuild ==
    /\ \E bid \in BuildIds :
          LET new_items == WithoutId(items, bid)
          IN  IF Len(new_items) = Len(items)
              THEN /\ items' = items
                   /\ result' = Outcome("delete_build", Returned(FALSE))
              ELSE /\ items' = new_items
                   /\ result' = Outcome("delete_build", Returned(TRUE))
    /\ UNCHANGED build

\* get_build(bid): the first record with that id, or None
GetBuild ==
    /\ \E bid \in BuildIds :
          result' = Outcome("get_build",
                            Returned(IF Positions(bid) # {} THEN items[SetMin(Positions(bid))]
                                     ELSE None))
    /\ UNCHANGED <<build, items>>

StoreNext ==
    \/ CreateBuild
    \/ UpdateBuild
    \/ DeleteBuild
    \/ GetBuild

StoreSpec == StoreInit /\ [][StoreNext]_vars

(***************************************************************************)
(* Properties.                                                             *)
(***************************************************************************)
\* the last call was analyze_build and it returned a BuildAnalysis
Analyzed == result.op = "analyze_build" /\ result.raised = "none"

\* the last call returned a validation verdict (validate_build, or analyze_build)
HasVerdict == result.op = "validate_build" \/ Analyzed

HasMsg(msgs, text) == \E i \in DOMAIN msgs : msgs[i].text = text

CountMsg(msgs, text) == Cardinality({i \in DOMAIN msgs : msgs[i].text = text})

MotorVoltageText ==
    "Battery voltage ({battery_voltage}V) is outside motor voltage range ({motor_min}V - {motor_max}V)"

EscVoltageText == "Battery voltage ({battery_voltage}V) exceeds ESC maximum ({esc_max}V)"

PropSizeText == "Propeller size ({prop_size}\") exceeds frame maximum ({max_prop}\")"

EscMissingText == "ESC not selected - some calculations may be limited"

FcMissingText == "Flight controller not selected - weight calculation excludes FC"

EscCurrentText ==
    "Motor current ({motor_max_current}A) may exceed ESC rating ({esc_rating_per_channel}A per channel)"

AllThreePresent ==
    build.motors # None /\ build.battery # None /\ build.propellers # None

ZeroPerformance(p) ==
    /\ p.total_weight = 0
    /\ p.max_thrust = 0
    /\ p.thrust_to_weight_ratio = 0
    /\ p.power_draw = 0

ZeroSimulation(f) ==
    /\ f.battery_capacity = 0
    /\ f.avg_current_draw = 0
    /\ f.estimated_flight_time = 0
    /\ f.estimated_range = 0
    /\ f.avg_speed = 0
    /\ f.hover_time = 0
    /\ f.max_speed = 0
    /\ f.efficiency = 0
    /\ f.discharge_data = <<>>
    /\ f.throttle_profile = <<>>

\* motor_count as the claims state it: frame.motor_count, or 4 without a frame
ClaimedMotorCount == IF build.frame # None THEN build.frame.motor_count ELSE 4

PriceOf(c) == IF c # None THEN c.price ELSE 0

WeightOf(c) == IF c # None THEN c.weight ELSE 0

\* sum of unit price times multiplier over the present components, in 0.001
ClaimedCost ==
    PriceOf(build.frame) + PriceOf(build.motors) * ClaimedMotorCount
    + PriceOf(build.propellers) * 4 + PriceOf(build.esc)
    + PriceOf(build.flight_controller) + PriceOf(build.battery) + PriceOf(build.receiver)

\* 50 g plus the weights of the present components, in 0.01 g
ClaimedWeight ==
    5000 + WeightOf(build.frame) + WeightOf(build.motors) * ClaimedMotorCount
    + WeightOf(build.propellers) * ClaimedMotorCount + WeightOf(build.esc)
    + WeightOf(build.flight_controller) + WeightOf(build.battery)
    + WeightOf(build.receiver)

\* C1: analyze(build) never raises: for every build, with any subset of the
\* components and any non-negative field values, it returns a BuildAnalysis.
\* (Stated as claimed; the code raises ZeroDivisionError / IndexError.)
C1_AnalyzeNeverRaises ==
    result.op = "analyze_build" => result.raised = "none"

\* C2: the performance scorecard and the flight simulation are the computed
\* ones exactly when motor, battery and propeller are all present, and the
\* zero/empty sentinel otherwise, whatever is_valid and the other four slots are;
\* without the three components analyze_build always returns.
C2_ComputedIffMotorBatteryPropeller ==
    result.op = "analyze_build" =>
        IF AllThreePresent
        THEN result.raised = "none" =>
               /\ result.value.performance.total_weight >= 5000
               /\ ~ZeroPerformance(result.value.performance)
               /\ ~ZeroSimulation(result.value.flight_simulation)
               /\ result.value.flight_simulation.battery_capacity = build.battery.capacity
               /\ Len(result.value.flight_simulation.throttle_profile) = 11
        ELSE /\ result.raised = "none"
             /\ ZeroPerformance(result.value.performance)
             /\ ZeroSimulation(result.value.flight_simulation)

\* C2 witness: an invalid build (no frame) with motor, battery and propeller has
\* the computed records.
C2_Witness ==
    /\ Analyzed
    /\ AllThreePresent
    /\ build.frame = None
    /\ ~result.value.is_valid
    /\ result.value.performance.total_weight >= 5000

\* C3: in every result of validate_build and of analyze_build, is_valid is true
\* exactly when the errors list is empty, whatever the warnings list holds.
C3_ValidIffNoErrors ==
    HasVerdict => (result.value.is_valid <=> result.value.errors = <<>>)

\* C3 witness: a valid verdict that carries warnings.
C3_Witness ==
    /\ HasVerdict
    /\ result.value.is_valid
    /\ result.value.warnings # <<>>

\* C4: for each of frame, motor, propeller and battery the errors hold that
\* component's 'required' message exactly when the component is absent, and a
\* build missing any of the four is not valid.
C4_RequiredMessageIffAbsent ==
    HasVerdict =>
        /\ HasMsg(result.value.errors, "Frame is required") <=> build.frame = None
        /\ HasMsg(result.value.errors, "Motors are required") <=> build.motors = None
        /\ HasMsg(result.value.errors, "Propellers are required") <=> build.propellers = None
        /\ HasMsg(result.value.errors, "Battery is required") <=> build.battery = None
        /\ (build.frame = None \/ build.motors = None \/ build.propellers = None
            \/ build.battery = None) => ~result.value.is_valid

\* C4 witness: a build with every slot filled but the propeller is rejected
\* with the propeller message only.
C4_Witness ==
    /\ HasVerdict
    /\ build.frame # None /\ build.motors # None /\ build.battery # None
    /\ build.esc # None /\ build.flight_controller # None /\ build.receiver # None
    /\ build.propellers = None
    /\ HasMsg(result.value.errors, "Propellers are required")
    /\ ~HasMsg(result.value.errors, "Frame is required")
    /\ ~result.value.is_valid

\* C5: with motor and battery present, the battery/motor voltage error is
\* reported exactly when the battery voltage is outside the closed interval
\* [motor.voltage.min, motor.voltage.max]; the error makes is_valid false and
\* names the battery voltage and both bounds; with either absent it is not
\* reported.
C5_MotorVoltageError ==
    HasVerdict =>
        IF build.motors # None /\ build.battery # None
        THEN LET lo == build.motors.voltage.min
                 hi == build.motors.voltage.max
                 v == build.battery.voltage
             IN  /\ HasMsg(result.value.errors, MotorVoltageText) <=> (v < lo \/ v > hi)
                 /\ HasMsg(result.value.errors, MotorVoltageText) =>
                        /\ ~result.value.is_valid
                        /\ \E i \in DOMAIN result.value.errors :
                              /\ result.value.errors[i].text = MotorVoltageText
                              /\ result.value.errors[i].args = <<v, lo, hi>>
        ELSE ~HasMsg(result.value.errors, MotorVoltageText)

\* C5 witness: a battery voltage equal to the motor's upper bound is accepted.
C5_Witness ==
    /\ HasVerdict
    /\ build.motors # None /\ build.battery # None
    /\ build.battery.voltage = build.motors.voltage.max
    /\ build.motors.voltage.min < build.motors.voltage.max
    /\ ~HasMsg(result.value.errors, MotorVoltageText)

\* C6: each upper-limit error (battery voltage against esc.voltage.max,
\* propeller size against frame.max_prop_size) is reported exactly when both
\* components are present and the value strictly exceeds the limit.
C6_UpperLimitErrors ==
    HasVerdict =>
        /\ HasMsg(result.value.errors, EscVoltageText) <=>
              (build.esc # None /\ build.battery # None
               /\ build.battery.voltage > build.esc.voltage.max)
        /\ HasMsg(result.value.errors, PropSizeText) <=>
              (build.propellers # None /\ build.frame # None
               /\ build.propellers.size > build.frame.max_prop_size)
        /\ ~HasMsg(result.value.warnings, EscVoltageText)
        /\ ~HasMsg(result.value.warnings, PropSizeText)

\* C6 witness: a propeller exactly as large as the frame's maximum and a battery
\* voltage equal to the ESC's maximum raise no error.
C6_Witness ==
    /\ HasVerdict
    /\ build.propellers # None /\ build.frame # None
    /\ build.propellers.size = build.frame.max_prop_size
    /\ build.esc # None /\ build.battery # None
    /\ build.battery.voltage = build.esc.voltage.max
    /\ ~HasMsg(result.value.errors, PropSizeText)
    /\ ~HasMsg(result.value.errors, EscVoltageText)

\* C7: ESC absent, flight controller absent, and motor.max_current above
\* esc.current_rating each add exactly one warning and no error; a build with
\* frame, motor, propeller and battery that passes the voltage and propeller
\* size checks is valid whichever of them occur.
C7_SoftFindingsOnlyWarn ==
    HasVerdict =>
        LET overCurrent == build.motors # None /\ build.esc # None
                           /\ build.motors.max_current > build.esc.current_rating
            Expect(cond) == IF cond THEN 1 ELSE 0
            passes == /\ build.frame # None /\ build.motors # None
                      /\ build.propellers # None /\ build.battery # None
                      /\ build.motors.voltage.min <= build.battery.voltage
                      /\ build.battery.voltage <= build.motors.voltage.max
                      /\ (build.esc # None => build.battery.voltage <= build.esc.voltage.max)
                      /\ build.propellers.size <= build.frame.max_prop_size
        IN  /\ CountMsg(result.value.warnings, EscMissingText) = Expect(build.esc = None)
            /\ CountMsg(result.value.warnings, FcMissingText)
                  = Expect(build.flight_controller = None)
            /\ CountMsg(result.value.warnings, EscCurrentText) = Expect(overCurrent)
            /\ ~HasMsg(result.value.errors, EscMissingText)
            /\ ~HasMsg(result.value.errors, FcMissingText)
            /\ ~HasMsg(result.value.errors, EscCurrentText)
            /\ passes => result.value.is_valid

\* C7 witness: a valid build without flight controller whose motor current
\* exceeds the ESC rating.
C7_Witness ==
    /\ HasVerdict
    /\ result.value.is_valid
    /\ build.flight_controller = None
    /\ build.esc # None /\ build.motors # None
    /\ build.motors.max_current > build.esc.current_rating
    /\ Len(result.value.warnings) = 2

\* C8: for the build with no components, analyze returns is_valid = false, the
\* four 'required' messages, an all-zero performance record, an all-zero
\* flight simulation with both sequences empty, and total_cost = 0.
C8_EmptyBuild ==
    (result.op = "analyze_build" /\ build = DroneComponents(None, None, None, None, None, None, None)) =>
        /\ result.raised = "none"
        /\ ~result.value.is_valid
        /\ HasMsg(result.value.errors, "Frame is required")
        /\ HasMsg(result.value.errors, "Motors are required")
        /\ HasMsg(result.value.errors, "Propellers are required")
        /\ HasMsg(result.value.errors, "Battery is required")
        /\ ZeroPerformance(result.value.performance)
        /\ ZeroSimulation(result.value.flight_simulation)
        /\ result.value.total_cost = 0

\* C8 witness: analyze_build has returned for the build with no components.
C8_Witness ==
    /\ Analyzed
    /\ build = DroneComponents(None, None, None, None, None, None, None)
    /\ Len(result.value.errors) = 4

\* the total cost of the last call that computed one
CostComputed == result.op = "calculate_total_cost" \/ Analyzed

TotalCost ==
    IF result.op = "calculate_total_cost" THEN result.value ELSE result.value.total_cost

\* C9 as claimed: total_cost is the sum over the present components of unit
\* price times multiplier (motor_count for the motor, 4 for the propeller, 1
\* for the others).
C9_CostIsExactSum ==
    CostComputed => TotalCost = ClaimedCost

\* C9 amended: total_cost is that sum rounded to 2 decimals: a whole number of
\* cents within half a cent of the sum, for valid and invalid builds alike.
C9_CostIsRoundedSum ==
    CostComputed =>
        /\ TotalCost % 10 = 0
        /\ Abs(TotalCost - ClaimedCost) <= 5

\* C9 witness: an analyzed build whose frame has 3 motors, with motor and
\* propeller, and whose sum is not a whole number of cents.
C9_Witness ==
    /\ Analyzed
    /\ build.frame # None /\ build.motors # None /\ build.propellers # None
    /\ build.frame.motor_count = 3
    /\ ClaimedCost % 10 # 0
    /\ result.value.total_cost # ClaimedCost

\* the total weight of the last call that computed one
WeightComputed ==
    result.op = "calculate_total_weight" \/ (Analyzed /\ AllThreePresent)

TotalWeight ==
    IF result.op = "calculate_total_weight" THEN result.value
    ELSE result.value.performance.total_weight

\* C10 as claimed: total_weight_g is at least 50 and equals 50 + the weights of
\* the present components, motor and propeller weight counted motor_count times.
C10_WeightIsExactSum ==
    WeightComputed => (TotalWeight >= 5000 /\ TotalWeight = ClaimedWeight)

\* C10 amended: total_weight_g is at least 50 and equals that sum rounded to 1
\* decimal: a whole number of 0.1 g within 0.05 g of the sum.
C10_WeightIsRoundedSum ==
    WeightComputed =>
        /\ TotalWeight >= 5000
        /\ TotalWeight % 10 = 0
        /\ Abs(TotalWeight - ClaimedWeight) <= 5

\* C10 witness: a build with a 3-motor frame, motor and propeller whose sum is
\* not a whole number of 0.1 g.
C10_Witness ==
    /\ WeightComputed
    /\ build.frame # None /\ build.motors # None /\ build.propellers # None
    /\ build.frame.motor_count = 3
    /\ ClaimedWeight % 10 # 0
    /\ TotalWeight # ClaimedWeight

\* the seven component slots of a build
Slots == {"frame", "motors", "propellers", "esc", "flight_controller", "battery", "receiver"}

\* weight increases tried on one component, in 0.01 g
WeightIncreases == {1, 3, 4, 10, 11, 2500}

\* the build with delta added to the weight of the component in slot
Heavier(b, slot, delta) ==
    [b EXCEPT ![slot] = [@ EXCEPT !.weight = @ + delta]]

\* how many times the weight of the component in slot enters the total
WeightMultiplier(b, slot) ==
    IF slot \in {"motors", "propellers"} THEN (IF b.frame # None THEN b.frame.motor_count ELSE 4) ELSE 1

\* C11 as claimed: total_weight_g strictly increases when the weight of any one
\* attached component is increased and the rest of the build is held fixed.
C11_WeightStrictlyIncreases ==
    result.op = "calculate_total_weight" =>
        \A slot \in Slots : \A delta \in WeightIncreases :
            build[slot] # None =>
                calculate_total_weight(Heavier(build, slot, delta)) > result.value

\* C11 amended: total_weight_g strictly increases when the increase, counted
\* motor_count times for motor and propeller and once for the other kinds, is
\* more than 0.1 g; a smaller increase never lowers it while motor_count >= 0.
C11_WeightIncreasesBeyondRounding ==
    result.op = "calculate_total_weight" =>
        \A slot \in Slots : \A delta \in WeightIncreases :
            build[slot] # None =>
                LET heavier == calculate_total_weight(Heavier(build, slot, delta))
                    gain == delta * WeightMultiplier(build, slot)
                IN  /\ gain > 10 => heavier > result.value
                    /\ gain >= 0 => heavier >= result.value
                    /\ heavier - result.value <= gain + 10
                    /\ heavier - result.value >= gain - 10

\* C11 witness: a full build with a 3-motor frame whose reported weight stays the
\* same for a 0.03 g heavier receiver and grows for a 0.04 g heavier motor.
C11_Witness ==
    /\ result.op = "calculate_total_weight"
    /\ \A slot \in Slots : build[slot] # None
    /\ build.frame.motor_count = 3
    /\ calculate_total_weight(Heavier(build, "receiver", 3)) = result.value
    /\ calculate_total_weight(Heavier(build, "motors", 4)) > result.value

\* the weight class the classification rule gives a weight in 0.01 g
ClaimedWeightClass(w) ==
    IF w < 50000 THEN "light" ELSE IF w < 70000 THEN "medium" ELSE "heavy"

\* C12: in every BuildAnalysis returned by analyze the reported weight class is
\* light when the reported total_weight is below 500 g, medium in [500, 700)
\* and heavy at 700 g or more.  (Stated as claimed; the record analyze_build
\* substitutes for an incomplete build reports total_weight 0 with class medium.)
C12_WeightClassMatchesWeight ==
    Analyzed =>
        result.value.performance.rating.weight
            = ClaimedWeightClass(result.value.performance.total_weight)

\* the class the classification rule gives a ratio in 0.01
ClaimedThrustClass(r) ==
    IF r < 300 THEN "poor"
    ELSE IF r < 500 THEN "adequate"
    ELSE IF r < 800 THEN "good"
    ELSE "excellent"

\* C13 as claimed: in every BuildAnalysis returned by analyze the thrust-to-weight
\* class is the band of the reported thrust_to_weight_ratio: poor below 3.0,
\* adequate in [3.0, 5.0), good in [5.0, 8.0), excellent from 8.0.
C13_ThrustClassMatchesReportedRatio ==
    Analyzed =>
        result.value.performance.rating.thrust_to_weight
            = ClaimedThrustClass(result.value.performance.thrust_to_weight_ratio)

\* C13 amended: the class is the band of the ratio max_thrust / total_weight
\* before it is rounded to 2 decimals (poor when total_weight is 0), each band
\* including its lower bound; it differs from the band of the reported ratio
\* only when the reported ratio is 3.0, 5.0 or 8.0 and the ratio is below it.
C13_ThrustClassMatchesUnroundedRatio ==
    Analyzed =>
        LET max_thrust == result.value.performance.max_thrust
            total_weight == result.value.performance.total_weight
            reported == result.value.performance.thrust_to_weight_ratio
            class == result.value.performance.rating.thrust_to_weight
        IN  IF total_weight = 0 THEN class = "poor" /\ reported = 0
            ELSE /\ class = "poor" <=> max_thrust < 3 * total_weight
                 /\ class = "adequate" <=>
                        (3 * total_weight <= max_thrust /\ max_thrust < 5 * total_weight)
                 /\ class = "good" <=>
                        (5 * total_weight <= max_thrust /\ max_thrust < 8 * total_weight)
                 /\ class = "excellent" <=> 8 * total_weight <= max_thrust
                 /\ \/ class = ClaimedThrustClass(reported)
                    \/ /\ reported \in {300, 500, 800}
                       /\ max_thrust * 100 < reported * total_weight
                       /\ class = ClaimedThrustClass(reported - 1)

\* C13 witness: a computed scorecard whose reported ratio is exactly a band's
\* lower bound while the ratio before rounding is below it.
C13_Witness ==
    /\ Analyzed
    /\ AllThreePresent
    /\ result.value.performance.thrust_to_weight_ratio \in {300, 500, 800}
    /\ result.value.performance.max_thrust * 100
           < result.value.performance.thrust_to_weight_ratio
             * result.value.performance.total_weight
    /\ result.value.performance.rating.thrust_to_weight
           # ClaimedThrustClass(result.value.performance.thrust_to_weight_ratio)

\* analyze_build returned the computed flight simulation
Simulated == Analyzed /\ AllThreePresent

\* the cruise current the flight time is computed from, in 0.000001 A: the motor
\* current at throttle 0.5 times motor_count, plus 0.5 A, plus the receiver's draw
CruiseCurrent ==
    calculate_current_at_throttle(build.motors, 5000) * ClaimedMotorCount
    + 500000
    + (IF build.receiver # None THEN build.receiver.current_draw * 1000 ELSE 0)

\* 0.8 x capacity_mAh / (avg_current_A x 1000) x 60 in 0.1 min is
\* UsableMinutes / CruiseCurrent
UsableMinutes == 480000 * build.battery.capacity

\* C14 as claimed: the cruise flight time is
\* (0.8 x capacity_mAh) / (avg_current_A x 1000) x 60, with avg_current_A the
\* cruise current at throttle 0.5.
C14_FlightTimeIsQuotient ==
    Simulated =>
        /\ UsableMinutes % CruiseCurrent = 0
        /\ result.value.flight_simulation.estimated_flight_time
              = UsableMinutes \div CruiseCurrent

\* C14 amended: the cruise flight time is that quotient rounded to 1 decimal (a
\* whole number of 0.1 min within 0.05 min of it), avg_current_A being the
\* current whose rounding to 2 decimals is reported as avg_current_draw; with
\* capacity 1500 mAh and a reported average current of 18 A it is 4.0 minutes.
C14_FlightTimeIsRoundedQuotient ==
    Simulated =>
        LET flight_time == result.value.flight_simulation.estimated_flight_time
            whole == UsableMinutes \div CruiseCurrent
            rest == UsableMinutes % CruiseCurrent
        IN  /\ \/ flight_time = whole /\ 2 * rest <= CruiseCurrent
               \/ flight_time = whole + 1 /\ 2 * rest >= CruiseCurrent
            /\ Abs(result.value.flight_simulation.avg_current_draw * 10000 - CruiseCurrent)
                  <= 5000
            /\ (build.battery.capacity = 1500
                /\ result.value.flight_simulation.avg_current_draw = 1800)
                   => flight_time = 40

\* C14 witness: a 1500 mAh battery flown at a reported 18 A for 4.0 minutes.
C14_Witness ==
    /\ Simulated
    /\ build.battery.capacity = 1500
    /\ result.value.flight_simulation.avg_current_draw = 1800
    /\ result.value.flight_simulation.estimated_flight_time = 40

\* the build with another battery capacity, all else fixed
WithCapacity(b, c) == [b EXCEPT !.battery.capacity = c]

\* the reported flight time of the build with capacity c, -1 if analyze raises
FlightTimeWith(c) ==
    LET other == analyze_build(WithCapacity(build, c))
    IN  IF other.raised = "none" THEN other.value.flight_simulation.estimated_flight_time
        ELSE -1

\* 0.8 <= (t2 / t1) / (c2 / c1) <= 1.2
ScalesWithin20Percent(t1, c1, t2, c2) ==
    /\ t1 > 0
    /\ 8 * t1 * c2 <= 10 * t2 * c1
    /\ 10 * t2 * c1 <= 12 * t1 * c2

\* C15 as claimed: for any two battery capacities in the same build the reported
\* flight times satisfy 0.8 <= (flight_time(C2)/flight_time(C1)) / (C2/C1) <= 1.2.
C15_FlightTimeScalesWithCapacity ==
    Simulated =>
        \A c \in BenchCapacities :
            ScalesWithin20Percent(result.value.flight_simulation.estimated_flight_time,
                                  build.battery.capacity, FlightTimeWith(c), c)

\* C15 amended: the bound holds whenever both reported flight times are at least
\* 0.6 minutes.
C15_LongFlightTimeScalesWithCapacity ==
    Simulated =>
        \A c \in BenchCapacities :
            LET t1 == result.value.flight_simulation.estimated_flight_time
                t2 == FlightTimeWith(c)
            IN  (t1 >= 6 /\ t2 >= 6) =>
                    ScalesWithin20Percent(t1, build.battery.capacity, t2, c)

\* C15 witness: flight times of at least 0.6 min for 1300 mAh and for 3000 mAh
\* that are not exactly in the ratio of the capacities.
C15_Witness ==
    /\ Simulated
    /\ build.battery.capacity = 1300
    /\ result.value.flight_simulation.estimated_flight_time >= 6
    /\ FlightTimeWith(3000) >= 6
    /\ FlightTimeWith(3000) * 1300
          # result.value.flight_simulation.estimated_flight_time * 3000

\* the discharge time series of the returned flight simulation
DischargeData == result.value.flight_simulation.discharge_data

\* remaining capacity at step i as the series defines it from the reported
\* average current, in 1/600 mAh: capacity - avg_current_A * 1000 * (i * 0.5 / 60)
RemainingAt(i) ==
    build.battery.capacity * 600
    - result.value.flight_simulation.avg_current_draw * 10 * (i * 5)

\* the number of steps the loop of generate_discharge_curve runs through at most:
\* int(flight_time_minutes / 0.5) + 1
NumPoints == (result.value.flight_simulation.estimated_flight_time \div 5) + 1

\* the series starts at time 0 with the whole capacity, has its points at the
\* consecutive times 0, 0.5, 1.0, ... min, and keeps no point below 20 %
StartsFullAndKeeps20Percent ==
    /\ DischargeData[1].time = 0
    /\ DischargeData[1].remaining_capacity = build.battery.capacity * 10
    /\ \A i \in DOMAIN DischargeData :
          /\ DischargeData[i].time = (i - 1) * 5
          /\ DischargeData[i].remaining_capacity >= 2 * build.battery.capacity
          /\ RemainingAt(i - 1) >= 120 * build.battery.capacity

\* C16 as claimed: every non-empty discharge series starts at time 0 with the whole
\* battery capacity, has its points at consecutive times with no gap, keeps no
\* point with less than 20 % remaining, and generation stops at the first step
\* whose remaining percentage is below 20 (the step after the last point).
C16_SeriesStopsAtFirstStepBelow20 ==
    (Simulated /\ DischargeData # <<>>) =>
        /\ StartsFullAndKeeps20Percent
        /\ RemainingAt(Len(DischargeData)) < 120 * build.battery.capacity

\* C16 amended: as claimed, but generation stops at the first step below 20 % or
\* after int(estimated_flight_time / 0.5) + 1 points, whichever comes first.
C16_SeriesStopsBelow20OrAtFlightTime ==
    (Simulated /\ DischargeData # <<>>) =>
        /\ StartsFullAndKeeps20Percent
        /\ Len(DischargeData) <= NumPoints
        /\ Len(DischargeData) < NumPoints =>
               RemainingAt(Len(DischargeData)) < 120 * build.battery.capacity

\* C16 witness: a series of several points that the 20 % limit ended before the
\* last step of the flight time.
C16_Witness ==
    /\ Simulated
    /\ Len(DischargeData) >= 5
    /\ Len(DischargeData) < NumPoints
    /\ RemainingAt(Len(DischargeData)) < 120 * build.battery.capacity

\* the profile is listed by descending percentage and its voltage does not rise
\* as the percentage falls
DescendingProfile(dp) ==
    \A i \in 1..(Len(dp) - 1) :
        /\ dp[i].percentage >= dp[i + 1].percentage
        /\ dp[i].voltage >= dp[i + 1].voltage

\* C17: along every discharge series remaining_capacity and voltage are
\* non-increasing from each point to the next, provided the battery's
\* discharge_profile is ordered by descending percentage with voltage not
\* rising as the percentage falls.
C17_SeriesNonIncreasing ==
    (Simulated /\ DescendingProfile(build.battery.discharge_profile)) =>
        \A i \in 1..(Len(DischargeData) - 1) :
            /\ DischargeData[i + 1].remaining_capacity <= DischargeData[i].remaining_capacity
            /\ DischargeData[i + 1].voltage <= DischargeData[i].voltage

\* C17 witness: a series over a descending profile of at least 4 points whose
\* voltage falls at every one of at least 5 steps.
C17_Witness ==
    /\ Simulated
    /\ DescendingProfile(build.battery.discharge_profile)
    /\ Len(build.battery.discharge_profile) >= 4
    /\ Len(DischargeData) >= 6
    /\ \A i \in 1..(Len(DischargeData) - 1) :
          DischargeData[i + 1].voltage < DischargeData[i].voltage

\* C19: for a propeller whose thrust calibration table is empty the thrust per
\* motor is 0 and nothing raises: analyze of a build with such a propeller
\* returns, with max_thrust = 0.  (Stated as claimed; the code indexes the
\* empty sorted table and raises IndexError.)
C19_EmptyThrustTableGivesZero ==
    (result.op = "analyze_build" /\ build.motors # None /\ build.propellers # None
     /\ build.propellers.thrust_data = <<>>) =>
        /\ result.raised = "none"
        /\ result.value.performance.max_thrust = 0

\* the avionics baseline as claimed, in 0.000001 A: 0.5 A with a flight
\* controller, 0 without, plus the receiver's draw
ClaimedBaseline ==
    (IF build.flight_controller # None THEN 500000 ELSE 0)
    + (IF build.receiver # None THEN build.receiver.current_draw * 1000 ELSE 0)

\* the cruise current with the claimed baseline, in 0.000001 A
ClaimedCruiseCurrent ==
    calculate_current_at_throttle(build.motors, 5000) * ClaimedMotorCount + ClaimedBaseline

\* C20: the avionics baseline is the same quantity in the scorecard's power, in
\* the cruise average current and at every throttle-sweep point (0.5 A only
\* with a flight controller, plus the receiver's draw), so that the power at
\* throttle 0.5 is the battery voltage times the cruise average current.
\* (Stated as claimed; the simulator adds the 0.5 A without a flight
\* controller too.)
C20_SameBaselineEverywhere ==
    Simulated =>
        LET power_draw == result.value.performance.power_draw
            avg_current == result.value.flight_simulation.avg_current_draw
            sweep == result.value.flight_simulation.throttle_profile
            voltage == build.battery.voltage
        IN  /\ avg_current = RoundDiv(ClaimedCruiseCurrent, 10000)
            /\ sweep[6].current = avg_current
            /\ sweep[6].power = power_draw
            /\ sweep[1].current = RoundDiv(ClaimedBaseline, 10000)
            /\ 2 * Abs(power_draw * 1000 - voltage * avg_current) <= voltage + 1000

\* the last call was calculate_flight_simulation, made directly
SimulatorCalled == result.op = "calculate_flight_simulation"

\* C21: calculate_flight_simulation, called on a build in which motor, battery and
\* propeller are not all present, returns the sentinel record (every numeric field 0,
\* both sequences empty) and does not raise.
C21_SimulatorReturnsSentinel ==
    (SimulatorCalled /\ ~AllThreePresent) =>
        /\ result.raised = "none"
        /\ result.value = EmptyFlightSimulation

\* the last call was calculate_thrust_for_motor_prop_combo on a motor and a propeller
ThrustCalled ==
    /\ result.op = "calculate_thrust_for_motor_prop_combo"
    /\ build.motors # None
    /\ build.propellers # None

\* positions of the calibration samples whose kv equals motor.kv
MatchingSamples ==
    {i \in DOMAIN build.propellers.thrust_data :
        build.propellers.thrust_data[i].kv = build.motors.kv}

\* the returned thrust is exactly t (in 0.01 g)
ThrustIs(t) == result.raised = "none" /\ result.value.num = t * result.value.den

\* C22: when thrust_data holds a sample whose kv equals motor.kv, the thrust returned
\* is that sample's thrust, and with several such samples the thrust of the first
\* one in the order of thrust_data.
C22_ExactKvReturnsFirstMatch ==
    (ThrustCalled /\ MatchingSamples # {}) =>
        \E i \in MatchingSamples :
            /\ \A j \in MatchingSamples : i <= j
            /\ ThrustIs(build.propellers.thrust_data[i].thrust)

\* two samples at the motor's kv with different thrusts, the first one returned
C22_Witness ==
    /\ ThrustCalled
    /\ Len(build.propellers.thrust_data) = 2
    /\ MatchingSamples = {1, 2}
    /\ build.propellers.thrust_data[1].thrust # build.propellers.thrust_data[2].thrust
    /\ ThrustIs(build.propellers.thrust_data[1].thrust)

CalibrationSet ==
    {build.propellers.thrust_data[i] : i \in DOMAIN build.propellers.thrust_data}

\* the returned thrust is exactly n / d, for d > 0
ThrustIsRatio(n, d) ==
    /\ result.raised = "none"
    /\ result.value.num \div result.value.den = n \div d
    /\ (result.value.num % result.value.den) * d = (n % d) * result.value.den

\* s is a sample of lowest kv, of highest kv
LowestSample(s) == \A t \in CalibrationSet : s.kv <= t.kv

HighestSample(s) == \A t \in CalibrationSet : t.kv <= s.kv

\* s1 and s2 are the samples next to motor.kv on either side
Bracketing(s1, s2) ==
    /\ s1.kv < build.motors.kv
    /\ build.motors.kv < s2.kv
    /\ \A t \in CalibrationSet : t.kv <= s1.kv \/ s2.kv <= t.kv

C24_ThrustNonNegative ==
    /\ (/\ ThrustCalled
        /\ build.motors.kv > 0
        /\ CalibrationSet # {}
        /\ \A s \in CalibrationSet : s.thrust >= 0)
       => (result.raised = "none" /\ result.value.num >= 0 /\ result.value.den > 0)
    /\ (/\ result.op = "calculate_thrust_for_motor_prop_combo"
        /\ (build.motors = None \/ build.propellers = None))
       => (result.raised = "none" /\ result.value.num = 0)

\* the last call was interpolate_voltage(battery.discharge_profile, result.percentage)
VoltageCalled == result.op = "interpolate_voltage"

QueriedProfile == build.battery.discharge_profile

\* a non-empty profile listed by strictly descending percentage
SortedDescending(dp) ==
    /\ Len(dp) >= 1
    /\ \A i \in 1..(Len(dp) - 1) : dp[i].percentage > dp[i + 1].percentage

\* v (in 0.00001 V) is the interpolation at percentage q between the points p1
\* (higher percentage) and p2, to the nearest 0.00001 V
InterpolatedBetween(v, q, p1, p2) ==
    LET span == p1.percentage - p2.percentage
        exact == (q - p2.percentage) * (p1.voltage - p2.voltage) * 100
    IN  2 * Abs((v - p2.voltage * 100) * span - exact) <= span

\* C25: for a discharge_profile sorted by descending percentage the voltage resolved
\* for a query percentage is the linear interpolation between the two adjacent points
\* that bracket it; above the highest percentage it is the first entry's voltage,
\* below the lowest the last entry's voltage; so it lies between the smallest and
\* the largest voltage of the profile.
C25_VoltageInterpolatedAndClamped ==
    (VoltageCalled /\ SortedDescending(QueriedProfile)) =>
        LET dp == QueriedProfile
            q == result.percentage
        IN  /\ result.raised = "none"
            /\ \A i \in 1..(Len(dp) - 1) :
                  (dp[i + 1].percentage <= q /\ q <= dp[i].percentage)
                      => InterpolatedBetween(result.value, q, dp[i], dp[i + 1])
            /\ q > dp[1].percentage => result.value = dp[1].voltage * 100
            /\ q < dp[Len(dp)].percentage => result.value = dp[Len(dp)].voltage * 100
            /\ \E i \in DOMAIN dp : dp[i].voltage * 100 <= result.value
            /\ \E i \in DOMAIN dp : result.value <= dp[i].voltage * 100

\* 75 % on the profile 100 %/16.8 V, 50 %/15.2 V, ... resolves to 16.0 V
C25_Witness ==
    /\ VoltageCalled
    /\ QueriedProfile = FullDischargeProfile
    /\ result.percentage = 750
    /\ result.raised = "none"
    /\ result.value = 1600000

ThrottleProfile == result.value.flight_simulation.throttle_profile

\* thrust_per_motor * motor_count as the fraction num / den, in 0.01 g
SweepThrustNum ==
    calculate_thrust_for_motor_prop_combo(build.motors, build.propellers).value.num
        * ClaimedMotorCount

SweepThrustDen ==
    calculate_thrust_for_motor_prop_combo(build.motors, build.propellers).value.den

\* 100 * thrust_per_motor * motor_count * (k / 10) ^ 2: whole part, and whether a
\* fraction is left over
SweepProductFloor(k) ==
    k * k * (SweepThrustNum \div SweepThrustDen)
        + (k * k * (SweepThrustNum % SweepThrustDen)) \div SweepThrustDen

SweepProductWhole(k) == (k * k * (SweepThrustNum % SweepThrustDen)) % SweepThrustDen = 0

\* t (in 0.01 g) is the product exactly; is the product to the nearest 0.1 g
ExactSweepThrust(t, k) == SweepProductWhole(k) /\ 100 * t = SweepProductFloor(k)

RoundedSweepThrust(t, k) ==
    /\ t % 10 = 0
    /\ 100 * t - SweepProductFloor(k) <= 500
    /\ SweepProductFloor(k) - 100 * t <= (IF SweepProductWhole(k) THEN 500 ELSE 499)

\* 11 points at throttle 0.0, 0.1, ..., 1.0; thrust 0 at throttle 0, non-decreasing,
\* and the scorecard's max_thrust at throttle 1.0
SweepShape ==
    /\ Len(ThrottleProfile) = 11
    /\ \A n \in 1..11 : ThrottleProfile[n].throttle = (n - 1) * 1000
    /\ ThrottleProfile[1].thrust = 0
    /\ \A n \in 1..10 : ThrottleProfile[n].thrust <= ThrottleProfile[n + 1].thrust
    /\ ThrottleProfile[11].thrust = result.value.performance.max_thrust

\* C26 as claimed: with motor, battery and propeller present the sweep has 11 points
\* at throttle 0.0 .. 1.0, thrust at a point is
\* thrust_per_motor * motor_count * throttle^2, it is 0 at throttle 0, non-decreasing
\* and the scorecard's max_thrust at 1.0; otherwise the sweep is empty.
C26_SweepThrustIsProduct ==
    Analyzed =>
        IF AllThreePresent
        THEN /\ SweepShape
             /\ \A n \in 1..11 : ExactSweepThrust(ThrottleProfile[n].thrust, n - 1)
        ELSE ThrottleProfile = <<>>

\* C26 (amended): the same, the thrust at a point being the product rounded to 1 decimal.
C26_SweepThrustIsRoundedProduct ==
    Analyzed =>
        IF AllThreePresent
        THEN /\ SweepShape
             /\ \A n \in 1..11 : RoundedSweepThrust(ThrottleProfile[n].thrust, n - 1)
        ELSE ThrottleProfile = <<>>

\* a sweep that rises to a positive max_thrust and has a rounded point
C26_Witness ==
    /\ Analyzed
    /\ AllThreePresent
    /\ SweepShape
    /\ ThrottleProfile[11].thrust > 0
    /\ \E n \in 2..10 : ~ExactSweepThrust(ThrottleProfile[n].thrust, n - 1)

HoverTime == result.value.flight_simulation.hover_time

\* calculate_flight_time(build, avg_throttle=1.0), in 0.1 min
FullThrottleFlightTime == calculate_flight_time(build, 10000)[1]

\* C27: hover_time is 0 when max_thrust is 0; otherwise the hover throttle is
\* sqrt(total_weight / max_thrust) capped at 1.0: a build whose total weight is at
\* least its max thrust hovers for the flight time computed at throttle 1.0, and no
\* build hovers for less than that.
C27_HoverTimeAtCappedThrottle ==
    Simulated =>
        LET max_thrust == result.value.performance.max_thrust
            total_weight == result.value.performance.total_weight
        IN  /\ max_thrust = 0 => HoverTime = 0
            /\ (max_thrust > 0 /\ total_weight >= max_thrust)
                   => HoverTime = FullThrottleFlightTime
            /\ max_thrust > 0 => HoverTime >= FullThrottleFlightTime

\* a build heavier than its max thrust, hovering for a positive time
C27_Witness ==
    /\ Simulated
    /\ result.value.performance.max_thrust > 0
    /\ result.value.performance.total_weight > result.value.performance.max_thrust
    /\ HoverTime > 0
    /\ HoverTime = FullThrottleFlightTime

\* C28 as claimed: the discharge series has at most flight_time_min / 0.5 points.
C28_PointsBoundedByFlightTime ==
    Simulated =>
        Len(DischargeData) * 5 <= result.value.flight_simulation.estimated_flight_time

\* C28 (amended): the discharge series has at most flight_time_min / 0.5 + 1 points.
C28_PointsBoundedByFlightTimePlusOne ==
    Simulated =>
        Len(DischargeData) * 5 <= result.value.flight_simulation.estimated_flight_time + 5

\* a flight of a whole number of steps whose series has one point more than steps
C28_Witness ==
    /\ Simulated
    /\ result.value.flight_simulation.estimated_flight_time >= 10
    /\ result.value.flight_simulation.estimated_flight_time % 5 = 0
    /\ Len(DischargeData) * 5 = result.value.flight_simulation.estimated_flight_time + 5

\* C29: if analyze reports is_valid = true then frame, motor, propeller and battery
\* are all present and the performance and flight-simulation records are the
\* computed ones: total_weight >= 50 g, battery_capacity is the battery's capacity
\* and throttle_profile has 11 points.
C29_ValidBuildIsComputed ==
    (Analyzed /\ result.value.is_valid) =>
        /\ build.frame # None
        /\ build.motors # None
        /\ build.propellers # None
        /\ build.battery # None
        /\ result.value.performance.total_weight >= WiringAllowance
        /\ result.value.performance # EmptyPerformanceMetrics
        /\ result.value.flight_simulation # EmptyFlightSimulation
        /\ result.value.flight_simulation.battery_capacity = build.battery.capacity
        /\ Len(result.value.flight_simulation.throttle_profile) = 11

\* a valid build with its computed records
C29_Witness ==
    /\ Analyzed
    /\ result.value.is_valid
    /\ result.value.errors = <<>>
    /\ result.value.performance.total_weight > WiringAllowance
    /\ result.value.flight_simulation.battery_capacity > 0
    /\ Len(result.value.flight_simulation.throttle_profile) = 11

\* C30: in the build store no two saved builds have the same id.
C30_StoredIdsUnique ==
    \A i, j \in DOMAIN items : items[i].id = items[j].id => i = j

====
